---- MODULE Spec2Model ----
(***************************************************************************)
(* Teamroom Tracking System (src/main.py): the request handlers for auth,  *)
(* team CRUD, team membership and reservation CRUD, over the committed     *)
(* store (users, teams with members, reservations).                        *)
(*                                                                         *)
(* Spec     : every request runs to completion before the next starts.     *)
(* ConcSpec : requests of two workers interleave between the handler's     *)
(*            queries and its commit (the handlers take no lock).          *)
(*                                                                         *)
(* models.py and database.py are not part of the sources at hand:          *)
(* has_permission, has_member, validate_conflicts, the role and team type  *)
(* tables follow the written specification.                                *)
(***************************************************************************)
EXTENDS Integers, FiniteSets, Sequences, TLC

\* ---------------------------------------------------------------- bounds
NumUsers == 3
NumRooms == 2
MaxTeams == 4
MaxRes == 3
MaxTime == 2

UserIds == 1..NumUsers
RoomIds == 1..NumRooms
TeamIds == 1..MaxTeams
ResIds == 1..MaxRes
Times == 0..MaxTime
\* team names and user names are one namespace of strings: user u is named u,
\* and one more name is free for teams
Names == 1..(NumUsers + 1)

\* parse_datetime's None
None == 0 - 1
\* an id that no row has
NoId == 0

Roles == {"guest", "student", "auditor", "admin"}
TeamTypes == {"single", "other_team"}
Overrides == {"true", "false", "absent", "nonbool"}

PlainCaps == {"team.create", "team.update", "team.delete",
              "reservation.create", "reservation.update", "reservation.delete"}
ElevatedCaps == {"team.create.elevated", "team.update.elevated", "team.delete.elevated",
                 "reservation.create.elevated", "reservation.update.elevated",
                 "reservation.delete.elevated"}

\* the permission set of each role (role <-> permission table)
RolePerms(r) ==
    CASE r = "guest" -> {}
      [] r = "student" -> PlainCaps
      [] r = "auditor" -> ElevatedCaps
      [] r = "admin" -> PlainCaps \cup ElevatedCaps

\* the creation-priority tier of a team type
Priority(type) == IF type = "single" THEN 0 ELSE 1

\* ----------------------------------------------------------------- state
VARIABLES
    role,          \* user id -> role name, for the users that exist
    teams,         \* team id -> [name, type, members], for the teams that exist
    nextTeamId,    \* the id the next inserted team gets
    reservations,  \* set of [id, team, room, start, end, created_by]
    nextResId,     \* the id the next inserted reservation gets
    last,          \* the last request answered: the handler's locals and its response
    inflight       \* worker -> the request it has classified and not yet committed

store == <<role, teams, nextTeamId, reservations, nextResId>>
vars == <<role, teams, nextTeamId, reservations, nextResId, last, inflight>>

NoReq == [op |-> "none", caller |-> NoId, team |-> NoId, user |-> NoId, res |-> NoId,
          room |-> NoId, start |-> None, end |-> None, override |-> "absent",
          name |-> NoId, type |-> "", status |-> 0, overridable |-> "none",
          conflict_status |-> "none", conflicts |-> {}]

Idle == [op |-> "idle"]

\* ------------------------------------------------------ pure functions

\* date strings: a wall-clock time with a UTC offset, or text that is no date
DateStrings ==
    {[ok |-> TRUE, wall |-> w, off |-> o] : w \in Times, o \in {0, 1}}
    \cup {[ok |-> FALSE, wall |-> 0, off |-> 0]}

\* the date strings a request carries: every instant of the time line in UTC,
\* the last one also written with an offset, and one unparsable text
DateInputs ==
    {d \in DateStrings : ~d.ok \/ d.off = 0 \/ d.wall = MaxTime}

\* iso8601.parse_date, then astimezone(utc): the UTC instant, None if unparsable
parse_datetime(d) == IF ~d.ok THEN None ELSE d.wall - d.off

\* the JSON bodies of a request, by the required parameters they carry (a null
\* value counts as absent): all of them, or all but one
BodyShapes(required) == {required} \cup {required \ {p} : p \in required}

json_param_exists(param_name, json_root) == param_name \in json_root

\* a slip: any truthy override is taken over
attempt_override_truthy(o) == o \in {"true", "nonbool"}

\* lines 352-354: only a boolean override is taken over
attempt_override(o) == IF o \in {"true", "false"} THEN o = "true" ELSE FALSE

has_permission(u, cap) == cap \in RolePerms(role[u])

has_member(t, u) == u \in teams[t].members

\* User.verify_auth_token: the token's user, None for a bad token
valid_token(tu) == tu \in DOMAIN role

TeamByName(n) == {t \in DOMAIN teams : teams[t].name = n}

ResById(id) == {x \in reservations : x.id = id}

\* a slip: the reservation under revision is not left out of the query
Overlapping_with_self(res, rs) ==
    {x \in rs : /\ x.room = res.room
                /\ x.start < res.end
                /\ x.end > res.start}

\* the existing reservations of the room whose interval intersects res's,
\* the reservation under revision left out
Overlapping(res, rs) ==
    {x \in rs : /\ x.id # res.id
                /\ x.room = res.room
                /\ x.start < res.end
                /\ x.end > res.start}

TeamTier(t, tms) == IF t \in DOMAIN tms THEN Priority(tms[t].type) ELSE 0

\* Reservation.validate_conflicts: <<status, conflicting reservations>>
validate_conflicts(res, rs, tms) ==
    LET over == Overlapping(res, rs) IN
    IF over = {} THEN <<"NO_CONFLICT", {}>>
    ELSE IF \A x \in over : TeamTier(x.team, tms) < TeamTier(res.team, tms)
         THEN <<"CONFLICT_OVERRIDABLE", over>>
         ELSE <<"CONFLICT_FAILURE", over>>

\* ------------------------------------------------------------ responses

\* what is kept of a request that was refused: who asked, on which team or
\* reservation, and the answer
Refused(r, code) ==
    [NoReq EXCEPT !.op = r.op, !.caller = r.caller, !.team = r.team, !.res = r.res,
                  !.type = r.type, !.override = r.override,
                  !.conflict_status = r.conflict_status,
                  !.overridable = r.overridable, !.status = code]

\* a slip: the row is deleted and committed first, the checks come after
Abort_after_delete(r, code) ==
    /\ last' = Refused(r, code)
    /\ reservations' = {x \in reservations : x.id # r.res}
    /\ UNCHANGED <<role, teams, nextTeamId, nextResId, inflight>>

\* the handler returns or aborts without a commit: the session is dropped
Abort(r, code) ==
    /\ last' = Refused(r, code)
    /\ UNCHANGED <<store, inflight>>

Workers == {"w1", "w2"}

\* who sends the reservation requests: Anyone (any body), the front Desk (any
\* room, well-formed UTC intervals), or the client of a concurrent worker
\* (room 1, well-formed UTC intervals). Anyone and Desk talk to the
\* sequential server.
Anyone == "anyone"
Desk == "desk"

\* the rooms a request names
RoomInputs(w) == IF w \in Workers THEN {1} ELSE RoomIds \cup {NoId}

\* the start and end a request carries
IntervalInputs(w) ==
    IF w = Anyone THEN DateInputs \X DateInputs
    ELSE {dd \in DateInputs \X DateInputs :
            /\ dd[1].ok /\ dd[2].ok
            /\ dd[1].off = 0 /\ dd[2].off = 0
            /\ dd[1].wall < dd[2].wall}

\* app.teardown_appcontext: the request is over, its session is removed
shutdown_session ==
    /\ last # NoReq
    /\ last' = NoReq
    /\ UNCHANGED <<store, inflight>>

\* requests are served one at a time: a handler starts when none is being served
Serving == last # NoReq

\* ----------------------------------------------------------------- auth

\* auth ends without a commit of its own: the token of an existing user is
\* returned (200), or the failed commit is dropped at teardown (500)
auth_ends(r, code) ==
    /\ last' = [Refused(r, code) EXCEPT !.user = r.user]
    /\ UNCHANGED <<store, inflight>>

auth(json) ==
    LET r == [NoReq EXCEPT !.op = "auth"] IN
    IF Serving THEN FALSE
    ELSE IF ~json_param_exists("username", json) THEN Abort(r, 400)
    ELSE \E username \in UserIds :
    LET r1 == [r EXCEPT !.user = username] IN
    IF username \in DOMAIN role THEN auth_ends(r1, 200)
    ELSE IF TeamByName(username) # {}
    THEN \* the IntegrityError of the team name is not caught
         auth_ends(r1, 500)
    ELSE /\ nextTeamId <= MaxTeams
         /\ role' = [u \in DOMAIN role \cup {username} |->
                        IF u = username THEN "student" ELSE role[u]]
         /\ teams' = [t \in DOMAIN teams \cup {nextTeamId} |->
                        IF t = nextTeamId
                        THEN [name |-> username, type |-> "single", members |-> {username}]
                        ELSE teams[t]]
         /\ nextTeamId' = nextTeamId + 1
         /\ last' = [r1 EXCEPT !.team = nextTeamId, !.status = 200]
         /\ UNCHANGED <<reservations, nextResId, inflight>>

\* ------------------------------------------------------------ team CRUD

\* a slip: team.create is enough for every team type
team_add_permitted_anytype(tu, type) ==
    has_permission(tu, "team.create") \/ has_permission(tu, "team.create.elevated")

\* lines 161-167
team_add_permitted(tu, type) ==
    IF type = "other_team"
    THEN has_permission(tu, "team.create") \/ has_permission(tu, "team.create.elevated")
    ELSE has_permission(tu, "team.create.elevated")

team_add(tu, json) ==
    LET r == [NoReq EXCEPT !.op = "team_add"] IN
    IF Serving THEN FALSE
    ELSE IF ~valid_token(tu) THEN Abort(r, 401)
    ELSE LET r1 == [r EXCEPT !.caller = tu] IN
    IF ~json_param_exists("name", json) \/ ~json_param_exists("type", json)
    THEN Abort(r1, 400)
    ELSE \E name \in Names, type \in TeamTypes \cup {"bogus"} :
    LET r2 == [r1 EXCEPT !.name = name, !.type = type] IN
    IF type \notin TeamTypes THEN Abort(r2, 400)
    ELSE IF ~team_add_permitted(tu, type) THEN Abort(r2, 403)
    ELSE IF TeamByName(name) # {} THEN Abort(r2, 409)
    ELSE /\ nextTeamId <= MaxTeams
         /\ teams' = [t \in DOMAIN teams \cup {nextTeamId} |->
                        IF t = nextTeamId
                        THEN [name |-> name, type |-> type, members |-> {}]
                        ELSE teams[t]]
         /\ nextTeamId' = nextTeamId + 1
         /\ last' = [r2 EXCEPT !.team = nextTeamId, !.status = 201]
         /\ UNCHANGED <<role, reservations, nextResId, inflight>>

\* lines 208-210
team_update_permitted(tu, t) ==
    \/ has_permission(tu, "team.update.elevated")
    \/ (has_permission(tu, "team.update") /\ has_member(t, tu))

team_update(tu, team_id, json) ==
    LET r == [NoReq EXCEPT !.op = "team_update"] IN
    IF Serving THEN FALSE
    ELSE IF ~valid_token(tu) THEN Abort(r, 401)
    ELSE LET r1 == [r EXCEPT !.caller = tu, !.team = team_id] IN
    IF team_id \notin DOMAIN teams THEN Abort(r1, 404)
    ELSE IF ~json_param_exists("name", json) THEN Abort(r1, 400)
    ELSE \E name \in Names :
    LET r2 == [r1 EXCEPT !.name = name] IN
    IF ~team_update_permitted(tu, team_id) THEN Abort(r2, 403)
    ELSE IF TeamByName(name) \ {team_id} # {} THEN Abort(r2, 409)
    ELSE /\ teams' = [teams EXCEPT ![team_id].name = name]
         /\ last' = [r2 EXCEPT !.status = 204]
         /\ UNCHANGED <<role, nextTeamId, reservations, nextResId, inflight>>

\* a slip: the type is compared with a name no type has
team_delete_single_never(t) == FALSE

\* line 233
team_delete_single(t) == teams[t].type = "single"

\* lines 237-239
team_delete_permitted(tu, t) ==
    \/ has_permission(tu, "team.delete.elevated")
    \/ (has_permission(tu, "team.delete") /\ has_member(t, tu))

\* a slip: the team goes, its reservations stay
team_delete_cascade_none(rs, team_id) == rs

\* line 243: Reservation.query.filter_by(team_id=team.id).delete()
team_delete_cascade(rs, team_id) == {x \in rs : x.team # team_id}

team_delete(tu, team_id) ==
    LET r == [NoReq EXCEPT !.op = "team_delete"] IN
    IF Serving THEN FALSE
    ELSE IF ~valid_token(tu) THEN Abort(r, 401)
    ELSE LET r1 == [r EXCEPT !.caller = tu, !.team = team_id] IN
    IF team_id \notin DOMAIN teams THEN Abort(r1, 404)
    ELSE IF team_delete_single(team_id) THEN Abort(r1, 403)
    ELSE IF ~team_delete_permitted(tu, team_id) THEN Abort(r1, 403)
    ELSE /\ reservations' = team_delete_cascade(reservations, team_id)
         /\ teams' = [t \in DOMAIN teams \ {team_id} |-> teams[t]]
         /\ last' = [r1 EXCEPT !.status = 204]
         /\ UNCHANGED <<role, nextTeamId, nextResId, inflight>>

\* --------------------------------------------------- team membership

\* line 268
team_user_add_single(t) == teams[t].type = "single"

\* lines 262-264
team_user_add_permitted(tu, t) ==
    \/ has_permission(tu, "team.update.elevated")
    \/ (has_permission(tu, "team.update") /\ has_member(t, tu))

team_user_add(tu, team_id, user_id) ==
    LET r == [NoReq EXCEPT !.op = "team_user_add"] IN
    IF Serving THEN FALSE
    ELSE IF ~valid_token(tu) THEN Abort(r, 401)
    ELSE LET r1 == [r EXCEPT !.caller = tu, !.team = team_id] IN
    IF team_id \notin DOMAIN teams THEN Abort(r1, 404)
    ELSE IF ~team_user_add_permitted(tu, team_id) THEN Abort(r1, 403)
    ELSE IF team_user_add_single(team_id) THEN Abort(r1, 400)
    ELSE LET r2 == [r1 EXCEPT !.user = user_id] IN
    IF user_id \notin DOMAIN role THEN Abort(r2, 400)
    ELSE IF has_member(team_id, user_id) THEN Abort(r2, 409)
    ELSE /\ teams' = [teams EXCEPT ![team_id].members = @ \cup {user_id}]
         /\ last' = [r2 EXCEPT !.status = 201]
         /\ UNCHANGED <<role, nextTeamId, reservations, nextResId, inflight>>

\* lines 297-299
team_user_delete_permitted(tu, t) ==
    \/ has_permission(tu, "team.update.elevated")
    \/ (has_permission(tu, "team.update") /\ has_member(t, tu))

\* a slip: the count is compared with a number it never is
team_user_delete_last_never(t) == FALSE

\* line 293
team_user_delete_last(t) == Cardinality(teams[t].members) = 1

team_user_delete(tu, team_id, user_id) ==
    LET r == [NoReq EXCEPT !.op = "team_user_delete"] IN
    IF Serving THEN FALSE
    ELSE IF ~valid_token(tu) THEN Abort(r, 401)
    ELSE LET r1 == [r EXCEPT !.caller = tu, !.team = team_id] IN
    IF team_id \notin DOMAIN teams THEN Abort(r1, 404)
    ELSE IF team_user_delete_last(team_id) THEN Abort(r1, 400)
    ELSE IF ~team_user_delete_permitted(tu, team_id) THEN Abort(r1, 403)
    ELSE LET r2 == [r1 EXCEPT !.user = user_id] IN
    IF user_id \notin DOMAIN role THEN Abort(r2, 400)
    ELSE IF ~has_member(team_id, user_id)
    THEN \* user.teams.remove(team) raises ValueError
         Abort(r2, 500)
    ELSE /\ teams' = [teams EXCEPT ![team_id].members = @ \ {user_id}]
         /\ last' = [r2 EXCEPT !.status = 204]
         /\ UNCHANGED <<role, nextTeamId, reservations, nextResId, inflight>>

\* ---------------------------------- team membership, concurrent workers

\* lines 257-276: the answer of the checks of team_user_add, 201 when the
\* handler goes on to append and commit
team_user_add_status(tu, team_id, user_id) ==
    IF ~valid_token(tu) THEN 401
    ELSE IF team_id \notin DOMAIN teams THEN 404
    ELSE IF ~team_user_add_permitted(tu, team_id) THEN 403
    ELSE IF team_user_add_single(team_id) THEN 400
    ELSE IF user_id \notin DOMAIN role THEN 400
    ELSE IF has_member(team_id, user_id) THEN 409
    ELSE 201

\* lines 289-306: the answer of the checks of team_user_delete, 204 when the
\* handler goes on to commit the removal
team_user_delete_status(tu, team_id, user_id) ==
    IF ~valid_token(tu) THEN 401
    ELSE IF team_id \notin DOMAIN teams THEN 404
    ELSE IF team_user_delete_last(team_id) THEN 400
    ELSE IF ~team_user_delete_permitted(tu, team_id) THEN 403
    ELSE IF user_id \notin DOMAIN role THEN 400
    ELSE IF ~has_member(team_id, user_id) THEN 500
    ELSE 204

\* a worker runs the checks of a membership request against the committed
\* store; a refusal is answered at once, otherwise the change waits in the
\* worker's session for its commit
team_user_query(w, op, tu, team_id, user_id) ==
    LET code == IF op = "team_user_add"
                THEN team_user_add_status(tu, team_id, user_id)
                ELSE team_user_delete_status(tu, team_id, user_id)
        r == [NoReq EXCEPT !.op = op, !.caller = tu, !.team = team_id,
                           !.user = user_id]
    IN
    /\ inflight[w] = Idle
    /\ IF code \in {201, 204}
       THEN /\ inflight' = [inflight EXCEPT ![w] =
                               [op |-> op, team |-> team_id, user |-> user_id, log |-> r]]
            /\ UNCHANGED <<store, last>>
       ELSE /\ last' = [r EXCEPT !.status = code]
            /\ UNCHANGED <<store, inflight>>

\* line 279, get_db().commit() of team_user_add: the membership row is
\* inserted. When another request has inserted the same row in between, the
\* insert is refused by the membership table's key (IntegrityError, not
\* caught: 500) or, where the table has no such key, goes in a second time
team_user_add_commit(w) ==
    LET p == inflight[w] IN
    /\ p.op = "team_user_add"
    /\ inflight' = [inflight EXCEPT ![w] = Idle]
    /\ IF p.team \notin DOMAIN teams
       THEN /\ last' = [p.log EXCEPT !.status = 500]
            /\ UNCHANGED store
       ELSE IF p.user \in teams[p.team].members
       THEN /\ \E code \in {500, 201} : last' = [p.log EXCEPT !.status = code]
            /\ UNCHANGED store
       ELSE /\ teams' = [teams EXCEPT ![p.team].members = @ \cup {p.user}]
            /\ last' = [p.log EXCEPT !.status = 201]
            /\ UNCHANGED <<role, nextTeamId, reservations, nextResId>>

\* line 307, get_db().commit() of team_user_delete: the membership row is
\* deleted; a row that is gone already fails the commit (500)
team_user_delete_commit(w) ==
    LET p == inflight[w] IN
    /\ p.op = "team_user_delete"
    /\ inflight' = [inflight EXCEPT ![w] = Idle]
    /\ IF p.team \notin DOMAIN teams \/ p.user \notin teams[p.team].members
       THEN /\ last' = [p.log EXCEPT !.status = 500]
            /\ UNCHANGED store
       ELSE /\ teams' = [teams EXCEPT ![p.team].members = @ \ {p.user}]
            /\ last' = [p.log EXCEPT !.status = 204]
            /\ UNCHANGED <<role, nextTeamId, reservations, nextResId>>

\* ------------------------------------------------------ reservation CRUD

\* a request is served by the sequential server (its context is `last`) or by
\* one of the concurrent workers (its context is inflight[w])
Busy(w) == IF w \in Workers THEN inflight[w] # Idle ELSE last # NoReq

\* a refusal: answered at once; a concurrent worker's refusal is not logged
Refuse(w, r, code) ==
    IF w \in Workers THEN UNCHANGED vars ELSE Abort(r, code)

\* get_db().delete(conflict) for each conflict, get_db().add(res), one commit():
\* rows are deleted by primary key and the candidate is inserted, in one transaction
add_commit(rs, res, deletes) ==
    {x \in rs : x.id \notin {d.id : d \in deletes}} \cup {res}

\* a slip: the commit sits in the delete loop, and the update of the row is
\* lost with a later failure
update_commit_partial(rs, res, deletes) ==
    {x \in rs : x.id \notin {d.id : d \in deletes}}

\* the same for an update: the row of res.id takes the new room, start and end
update_commit(rs, res, deletes) ==
    {x \in rs : x.id \notin {d.id : d \in deletes} /\ x.id # res.id} \cup {res}

\* line 333
reservation_add_permitted(tu, t) ==
    has_permission(tu, "reservation.create") /\ has_member(t, tu)

\* a slip: the CONFLICT_FAILURE branch does not return
reservation_add_commits_fallthrough(conflict_status, override) ==
    \/ conflict_status # "CONFLICT_OVERRIDABLE"
    \/ attempt_override(override)

\* lines 357-367: whether the handler goes on to add and commit
reservation_add_commits(conflict_status, override) ==
    \/ conflict_status = "NO_CONFLICT"
    \/ (conflict_status = "CONFLICT_OVERRIDABLE" /\ attempt_override(override))

\* a slip: the loop stops after the first conflict
reservation_add_deletes_first(conflict_status, conflicting_reservations, override) ==
    IF conflict_status = "CONFLICT_OVERRIDABLE" /\ attempt_override(override)
    THEN {CHOOSE c \in conflicting_reservations : TRUE}
    ELSE {}

\* lines 359-363: the reservations the handler deletes
reservation_add_deletes(conflict_status, conflicting_reservations, override) ==
    IF conflict_status = "CONFLICT_OVERRIDABLE" /\ attempt_override(override)
    THEN conflicting_reservations
    ELSE {}

\* lines 365, 367: the body of the 409 answer
conflict_body(conflict_status) ==
    IF conflict_status = "CONFLICT_OVERRIDABLE" THEN "true" ELSE "false"

\* the override values worth telling apart: the flag decides nothing when
\* there is no conflict
OverrideInputs(conflict_status) ==
    IF conflict_status = "NO_CONFLICT" THEN {"absent"} ELSE Overrides

reservation_add(w, tu, json) ==
    LET r == [NoReq EXCEPT !.op = "reservation_add"] IN
    IF Busy(w) THEN FALSE
    ELSE IF ~valid_token(tu) THEN Refuse(w, r, 401)
    ELSE LET r1 == [r EXCEPT !.caller = tu] IN
    IF \E p \in {"team_id", "room_id", "start", "end"} : ~json_param_exists(p, json)
    THEN Refuse(w, r1, 400)
    ELSE \E team_id \in TeamIds \cup {NoId} :
    LET r2 == [r1 EXCEPT !.team = team_id] IN
    IF team_id \notin DOMAIN teams THEN Refuse(w, r2, 400)
    ELSE IF ~reservation_add_permitted(tu, team_id) THEN Refuse(w, r2, 403)
    ELSE \E room_id \in RoomInputs(w) :
    LET r3 == [r2 EXCEPT !.room = room_id] IN
    IF room_id \notin RoomIds THEN Refuse(w, r3, 400)
    ELSE \E dd \in IntervalInputs(w) :
    LET start == parse_datetime(dd[1])
        end == parse_datetime(dd[2])
        r4 == [r3 EXCEPT !.start = start, !.end = end]
    IN
    IF start = None \/ end = None THEN Refuse(w, r4, 400)
    ELSE IF start >= end THEN Refuse(w, r4, 400)
    ELSE
    LET res == [id |-> NoId, team |-> team_id, room |-> room_id,
                start |-> start, end |-> end, created_by |-> tu]
        vc == validate_conflicts(res, reservations, teams)
    IN
    \E override \in OverrideInputs(vc[1]) :
    LET r5 == [r4 EXCEPT !.override = override, !.conflict_status = vc[1],
                         !.conflicts = vc[2]]
        deletes == reservation_add_deletes(vc[1], vc[2], override)
    IN
    IF ~reservation_add_commits(vc[1], override)
    THEN Refuse(w, [r5 EXCEPT !.overridable = conflict_body(vc[1])], 409)
    ELSE IF w \notin Workers
    THEN /\ nextResId <= MaxRes
         /\ reservations' = add_commit(reservations, [res EXCEPT !.id = nextResId], deletes)
         /\ nextResId' = nextResId + 1
         /\ last' = [r5 EXCEPT !.res = nextResId, !.status = 201]
         /\ UNCHANGED <<role, teams, nextTeamId, inflight>>
    ELSE /\ inflight' = [inflight EXCEPT ![w] =
                            [op |-> "reservation_add", res |-> res, deletes |-> deletes,
                             log |-> Refused(r5, 0)]]
         /\ UNCHANGED <<store, last>>

\* lines 414-419
reservation_update_permitted(tu, res) ==
    \/ has_permission(tu, "reservation.update.elevated")
    \/ ((\E m \in teams[res.team].members : m = tu)
        /\ has_permission(tu, "reservation.update"))

\* a slip: override used as a force flag
reservation_update_commits_forced(conflict_status, override) ==
    \/ conflict_status = "NO_CONFLICT"
    \/ attempt_override(override)

\* lines 430-440: whether the handler goes on to commit
reservation_update_commits(conflict_status, override) ==
    \/ conflict_status = "NO_CONFLICT"
    \/ (conflict_status = "CONFLICT_OVERRIDABLE" /\ attempt_override(override))

\* lines 432-436: the reservations the handler deletes
reservation_update_deletes(conflict_status, conflicting_reservations, override) ==
    IF conflict_status = "CONFLICT_OVERRIDABLE" /\ attempt_override(override)
    THEN conflicting_reservations
    ELSE {}

reservation_update(w, tu, res_id, json) ==
    LET r == [NoReq EXCEPT !.op = "reservation_update"] IN
    IF Busy(w) THEN FALSE
    ELSE IF ~valid_token(tu) THEN Refuse(w, r, 401)
    ELSE LET r1 == [r EXCEPT !.caller = tu, !.res = res_id] IN
    IF \E p \in {"room_id", "start", "end"} : ~json_param_exists(p, json)
    THEN Refuse(w, r1, 400)
    ELSE \E room_id \in RoomInputs(w) :
    LET r2 == [r1 EXCEPT !.room = room_id] IN
    IF room_id \notin RoomIds THEN Refuse(w, r2, 400)
    ELSE \E dd \in IntervalInputs(w) :
    LET start == parse_datetime(dd[1])
        end == parse_datetime(dd[2])
        r3 == [r2 EXCEPT !.start = start, !.end = end]
    IN
    IF start = None \/ end = None THEN Refuse(w, r3, 400)
    ELSE IF ResById(res_id) = {} THEN Refuse(w, r3, 400)
    ELSE LET old == CHOOSE x \in reservations : x.id = res_id
             r4 == [r3 EXCEPT !.team = old.team]
    IN
    IF ~reservation_update_permitted(tu, old) THEN Refuse(w, r4, 403)
    ELSE
    LET res == [old EXCEPT !.room = room_id, !.start = start, !.end = end]
        vc == validate_conflicts(res, reservations, teams)
    IN
    \E override \in OverrideInputs(vc[1]) :
    LET r5 == [r4 EXCEPT !.override = override, !.conflict_status = vc[1],
                         !.conflicts = vc[2]]
        deletes == reservation_update_deletes(vc[1], vc[2], override)
    IN
    IF ~reservation_update_commits(vc[1], override)
    THEN Refuse(w, [r5 EXCEPT !.overridable = conflict_body(vc[1])], 409)
    ELSE IF w \notin Workers
    THEN /\ reservations' = update_commit(reservations, res, deletes)
         /\ last' = [r5 EXCEPT !.status = 204]
         /\ UNCHANGED <<role, teams, nextTeamId, nextResId, inflight>>
    ELSE /\ inflight' = [inflight EXCEPT ![w] =
                            [op |-> "reservation_update", res |-> res, deletes |-> deletes,
                             log |-> Refused(r5, 0)]]
         /\ UNCHANGED <<store, last>>

\* get_db().commit() of a concurrent worker, lines 370 and 442: the session's
\* deletes and its insert or update reach the store in one transaction
commit(w) ==
    LET p == inflight[w] IN
    /\ p # Idle
    /\ inflight' = [inflight EXCEPT ![w] = Idle]
    /\ IF p.op = "reservation_add"
       THEN /\ nextResId <= MaxRes
            /\ reservations' =
                   add_commit(reservations, [p.res EXCEPT !.id = nextResId], p.deletes)
            /\ nextResId' = nextResId + 1
            /\ last' = [p.log EXCEPT !.res = nextResId, !.status = 201]
            /\ UNCHANGED <<role, teams, nextTeamId>>
       ELSE IF ResById(p.res.id) = {}
       THEN \* the UPDATE matches no row: StaleDataError, the transaction is rolled back
            /\ last' = [p.log EXCEPT !.status = 500]
            /\ UNCHANGED store
       ELSE /\ reservations' = update_commit(reservations, p.res, p.deletes)
            /\ last' = [p.log EXCEPT !.status = 204]
            /\ UNCHANGED <<role, teams, nextTeamId, nextResId>>

\* the commit raises (the connection is lost, the database refuses): the
\* session is removed at teardown and nothing of it reaches the store
rollback(w) ==
    /\ inflight[w] # Idle
    /\ inflight' = [inflight EXCEPT ![w] = Idle]
    /\ last' = [inflight[w].log EXCEPT !.status = 500]
    /\ UNCHANGED store

\* a slip: membership of the owning team is not asked for
reservation_delete_permitted_anyteam(tu, res) ==
    \/ has_permission(tu, "reservation.delete.elevated")
    \/ has_permission(tu, "reservation.delete")

\* lines 456-461
reservation_delete_permitted(tu, res) ==
    \/ has_permission(tu, "reservation.delete.elevated")
    \/ ((\E m \in teams[res.team].members : m = tu)
        /\ has_permission(tu, "reservation.delete"))

reservation_delete(tu, res_id) ==
    LET r == [NoReq EXCEPT !.op = "reservation_delete"] IN
    IF Serving THEN FALSE
    ELSE IF ~valid_token(tu) THEN Abort(r, 401)
    ELSE LET r1 == [r EXCEPT !.caller = tu, !.res = res_id] IN
    IF ResById(res_id) = {} THEN Abort(r1, 404)
    ELSE LET old == CHOOSE x \in reservations : x.id = res_id
             r2 == [r1 EXCEPT !.team = old.team]
    IN
    IF ~reservation_delete_permitted(tu, old) THEN Abort(r2, 403)
    ELSE /\ reservations' = reservations \ {old}
         /\ last' = [r2 EXCEPT !.status = 204]
         /\ UNCHANGED <<role, teams, nextTeamId, nextResId, inflight>>

\* ------------------------------------------------------- specification

\* the bearer tokens a request may carry: one per user id, and a bad one
Callers == UserIds \cup {NoId}

SingleTeams ==
    (1 :> [name |-> 1, type |-> "single", members |-> {1}])
    @@ (2 :> [name |-> 2, type |-> "single", members |-> {2}])

\* the teams after the administrator has created team 3 and added both users
SeededTeams ==
    SingleTeams
    @@ (3 :> [name |-> NumUsers + 1, type |-> "other_team", members |-> {1, 2}])

Booking(id, t, rm, s, e) ==
    [id |-> id, team |-> t, room |-> rm, start |-> s, end |-> e, created_by |-> 1]

\* the store as seeded: an administrator and one more user of any role, each
\* with the single team of its first authentication; no reservation yet
Init ==
    /\ \E r2 \in Roles : role = (1 :> "admin") @@ (2 :> r2)
    /\ teams = SingleTeams
    /\ nextTeamId = 3
    /\ reservations = {}
    /\ nextResId = 1
    /\ last = NoReq
    /\ inflight = [w \in Workers |-> Idle]

\* ... after the administrator has booked room 1 for their own team
InitTeam ==
    /\ \E r2 \in Roles : role = (1 :> "admin") @@ (2 :> r2)
    /\ teams = SingleTeams
    /\ nextTeamId = 3
    /\ reservations = {Booking(1, 1, 1, 0, 1)}
    /\ nextResId = 2
    /\ last = NoReq
    /\ inflight = [w \in Workers |-> Idle]

\* ... with team 3, a student as second user, and one reservation booked and
\* cancelled again
InitRes ==
    /\ role = (1 :> "admin") @@ (2 :> "student")
    /\ teams = SeededTeams
    /\ nextTeamId = 4
    /\ reservations = {}
    /\ nextResId = 2
    /\ last = NoReq
    /\ inflight = [w \in Workers |-> Idle]

\* ... with team 3, a second user without permissions, and the administrator's
\* team holding room 1 for two adjacent intervals
InitOver ==
    /\ role = (1 :> "admin") @@ (2 :> "guest")
    /\ teams = SeededTeams
    /\ nextTeamId = 4
    /\ reservations = {Booking(1, 1, 1, 0, 1), Booking(2, 1, 1, 1, 2)}
    /\ nextResId = 3
    /\ last = NoReq
    /\ inflight = [w \in Workers |-> Idle]

\* ... with team 3, a second user without permissions, and one reservation
\* booked and cancelled again
InitConc ==
    /\ role = (1 :> "admin") @@ (2 :> "guest")
    /\ teams = SeededTeams
    /\ nextTeamId = 4
    /\ reservations = {}
    /\ nextResId = 2
    /\ last = NoReq
    /\ inflight = [w \in Workers |-> Idle]

\* ... with a student as second user and team 3, whose only member so far is
\* the administrator
InitConcTeam ==
    /\ role = (1 :> "admin") @@ (2 :> "student")
    /\ teams = SingleTeams
               @@ (3 :> [name |-> NumUsers + 1, type |-> "other_team", members |-> {1}])
    /\ nextTeamId = 4
    /\ reservations = {}
    /\ nextResId = 1
    /\ last = NoReq
    /\ inflight = [w \in Workers |-> Idle]

\* ... with team 3, a student and a user without permissions, room 1 booked
\* for team 3, and room for one more team
InitErr ==
    /\ role = (1 :> "student") @@ (2 :> "guest")
    /\ teams = SeededTeams
    /\ nextTeamId = MaxTeams
    /\ reservations = {Booking(1, 3, 1, 0, 1)}
    /\ nextResId = MaxRes + 1
    /\ last = NoReq
    /\ inflight = [w \in Workers |-> Idle]

\* ... with team 3, a second user of any role, and room 1 booked for team 3
InitAuth ==
    /\ \E r2 \in Roles : role = (1 :> "admin") @@ (2 :> r2)
    /\ teams = SeededTeams
    /\ nextTeamId = 4
    /\ reservations = {Booking(1, 3, 1, 0, 1)}
    /\ nextResId = MaxRes + 1
    /\ last = NoReq
    /\ inflight = [w \in Workers |-> Idle]

NextTeam ==
    \/ shutdown_session
    \/ \E json \in BodyShapes({"username"}) : auth(json)
    \/ \E tu \in Callers, json \in BodyShapes({"name", "type"}) : team_add(tu, json)
    \/ \E tu \in Callers, t \in TeamIds, json \in BodyShapes({"name"}) :
          team_update(tu, t, json)
    \/ \E tu \in Callers, t \in TeamIds : team_delete(tu, t)
    \/ \E tu \in Callers, t \in TeamIds, u \in UserIds : team_user_add(tu, t, u)
    \/ \E tu \in Callers, t \in TeamIds, u \in UserIds : team_user_delete(tu, t, u)

NextRes ==
    \/ shutdown_session
    \/ \E tu \in Callers, json \in BodyShapes({"team_id", "room_id", "start", "end"}) :
          reservation_add(Anyone, tu, json)
    \/ \E tu \in Callers, id \in ResIds,
          json \in BodyShapes({"room_id", "start", "end"}) :
          reservation_update(Anyone, tu, id, json)
    \/ \E tu \in Callers, id \in ResIds : reservation_delete(tu, id)
    \/ \E tu \in Callers, t \in TeamIds : team_delete(tu, t)

\* the operations whose authorization is membership-or-elevated
NextAuth ==
    \/ shutdown_session
    \/ \E tu \in Callers, t \in TeamIds, json \in BodyShapes({"name"}) :
          team_update(tu, t, json)
    \/ \E tu \in Callers, t \in TeamIds : team_delete(tu, t)
    \/ \E tu \in Callers, t \in TeamIds, u \in UserIds : team_user_add(tu, t, u)
    \/ \E tu \in Callers, t \in TeamIds, u \in UserIds : team_user_delete(tu, t, u)
    \/ \E tu \in Callers, id \in ResIds,
          json \in BodyShapes({"room_id", "start", "end"}) :
          reservation_update(Anyone, tu, id, json)
    \/ \E tu \in Callers, id \in ResIds : reservation_delete(tu, id)

\* the front desk books, moves and cancels
NextOver ==
    \/ shutdown_session
    \/ \E tu \in Callers, json \in BodyShapes({"team_id", "room_id", "start", "end"}) :
          reservation_add(Desk, tu, json)
    \/ \E tu \in Callers, id \in ResIds,
          json \in BodyShapes({"room_id", "start", "end"}) :
          reservation_update(Desk, tu, id, json)
    \/ \E tu \in Callers, id \in ResIds : reservation_delete(tu, id)

\* two workers serve reservation requests for one room at the same time
NextConc ==
    \/ \E w \in Workers, tu \in Callers,
          json \in BodyShapes({"team_id", "room_id", "start", "end"}) :
          reservation_add(w, tu, json)
    \/ \E w \in Workers, tu \in Callers, id \in ResIds,
          json \in BodyShapes({"room_id", "start", "end"}) :
          reservation_update(w, tu, id, json)
    \/ \E w \in Workers : commit(w)
    \/ \E w \in Workers : rollback(w)

\* two workers serve membership requests at the same time
NextConcTeam ==
    \/ \E w \in Workers, op \in {"team_user_add", "team_user_delete"},
          tu \in Callers, t \in TeamIds, u \in UserIds :
          team_user_query(w, op, tu, t, u)
    \/ \E w \in Workers : team_user_add_commit(w)
    \/ \E w \in Workers : team_user_delete_commit(w)

Next == NextTeam \/ NextRes

Spec == Init /\ [][Next]_vars

SpecTeam == InitTeam /\ [][NextTeam]_vars

SpecRes == InitRes /\ [][NextRes]_vars

SpecOver == InitOver /\ [][NextOver]_vars

SpecAuth == InitAuth /\ [][NextAuth]_vars

SpecErr == InitErr /\ [][Next]_vars

ConcSpec == InitConc /\ [][NextConc]_vars

ConcTeamSpec == InitConcTeam /\ [][NextConcTeam]_vars

\* ---------------------------------------------------------- properties

\* the sequential server has just answered a request of one of the operations
Answers(ops) == last.op = "none" /\ last'.op \in ops

ReservationWrites == {"reservation_add", "reservation_update"}

Overlap(a, b) == a.room = b.room /\ a.start < b.end /\ a.end > b.start

Ids(rs) == {x.id : x \in rs}

\* C1: served one after the other, reservation create, update, delete and team
\* delete never leave two distinct committed reservations of one room whose
\* intervals overlap
NoOverlap ==
    \A a \in reservations : \A b \in reservations : a # b => ~Overlap(a, b)

\* two reservations share a room after a successful update
NoOverlapWitness ==
    /\ last.op = "reservation_update" /\ last.status = 204
    /\ \E a \in reservations : \E b \in reservations : a # b /\ a.room = b.room

\* C2: with create and update requests for one room interleaved between
\* classification and commit, at most one committed reservation occupies any
\* instant of the room
AtMostOnePerInstant ==
    \A rm \in RoomIds : \A t \in Times :
        Cardinality({x \in reservations :
                        x.room = rm /\ x.start <= t /\ t < x.end}) <= 1

\* the reservation a create or update request asks for, from the handler's locals
Asked(l, rs) ==
    IF l.op = "reservation_add"
    THEN [id |-> l.res, team |-> l.team, room |-> l.room, start |-> l.start,
          end |-> l.end, created_by |-> l.caller]
    ELSE [(CHOOSE x \in rs : x.id = l.res) EXCEPT
             !.room = l.room, !.start = l.start, !.end = l.end]

\* C3: a create or update classified CONFLICT_OVERRIDABLE with override = true
\* removes exactly the conflict set (the reservations of the room that overlap
\* the candidate), inserts the candidate or moves the updated reservation, and
\* leaves every other reservation as it was
OverrideRemovesExactlyConflicts ==
    [][(/\ Answers(ReservationWrites)
        /\ last'.conflict_status = "CONFLICT_OVERRIDABLE"
        /\ last'.override = "true")
       => /\ last'.status \in {201, 204}
          /\ (last'.op = "reservation_add") = (last'.res \notin Ids(reservations))
          /\ LET put == Asked(last', reservations)
                 over == Overlapping(put, reservations)
             IN /\ over # {}
                /\ last'.conflicts = over
                /\ reservations' =
                       {x \in reservations : x \notin over /\ x.id # put.id} \cup {put}
          /\ UNCHANGED <<role, teams, nextTeamId>>]_vars

\* a confirmed override has removed two reservations at once
OverrideWitness ==
    /\ last.op = "reservation_add" /\ last.status = 201
    /\ last.override = "true"
    /\ Cardinality(last.conflicts) = 2
    /\ Ids(reservations) \cap Ids(last.conflicts) = {}

\* C4: a create or update classified CONFLICT_OVERRIDABLE whose override is
\* false, absent or not a boolean is answered 409 with overridable = true, and
\* the store is unchanged
NoOverrideChangesNothing ==
    [][(/\ Answers(ReservationWrites)
        /\ last'.conflict_status = "CONFLICT_OVERRIDABLE"
        /\ last'.override \in {"false", "absent", "nonbool"})
       => /\ last'.status = 409
          /\ last'.overridable = "true"
          /\ UNCHANGED store]_vars

\* an update with a non-boolean override was answered overridable
NoOverrideWitness ==
    /\ last.op = "reservation_update" /\ last.status = 409
    /\ last.overridable = "true" /\ last.override = "nonbool"
    /\ reservations # {}

\* C5: a create or update classified CONFLICT_FAILURE is answered 409 with
\* overridable = false whatever the override flag, and the store is unchanged
FailureIgnoresOverride ==
    [][(/\ Answers(ReservationWrites)
        /\ last'.conflict_status = "CONFLICT_FAILURE")
       => /\ last'.status = 409
          /\ last'.overridable = "false"
          /\ UNCHANGED store]_vars

\* a create with override = true was refused as not overridable
FailureWitness ==
    /\ last.op = "reservation_add" /\ last.status = 409
    /\ last.overridable = "false" /\ last.override = "true"
    /\ reservations # {}

\* C6: the commit of a confirmed override is all-or-nothing for every other
\* request: the step that ends the request either changes no reservation, or
\* removes every conflicting reservation and puts the candidate, and touches no
\* other reservation
OverrideAllOrNothing ==
    [][\A w \in Workers :
          (/\ inflight[w] # Idle
           /\ inflight'[w] = Idle
           /\ inflight[w].deletes # {})
          => \/ reservations' = reservations
             \/ LET p == inflight[w]
                    gone == Ids(p.deletes)
                    mine == IF p.op = "reservation_add"
                            THEN reservations' \ reservations
                            ELSE {x \in reservations' : x.id = p.res.id}
                IN /\ Ids(reservations') \cap gone = {}
                   /\ \E c \in mine :
                         /\ mine = {c}
                         /\ c = [p.res EXCEPT !.id = c.id]
                   /\ \A x \in reservations :
                         (x.id \notin gone /\ x.id \notin Ids(mine))
                            => x \in reservations']_vars

\* a concurrent worker has committed a confirmed override
OverrideCommitWitness ==
    /\ last.status \in {201, 204}
    /\ last.conflict_status = "CONFLICT_OVERRIDABLE"
    /\ last.override = "true"
    /\ \A w \in Workers : inflight[w] = Idle

\* the capability of each operation on a team-owned resource
CapOf(op) ==
    CASE op = "team_update" -> "team.update"
      [] op = "team_delete" -> "team.delete"
      [] op = "team_user_add" -> "team.update"
      [] op = "team_user_delete" -> "team.update"
      [] op = "reservation_update" -> "reservation.update"
      [] op = "reservation_delete" -> "reservation.delete"
      [] op = "reservation_add" -> "reservation.create"

ElevatedOf(cap) ==
    CASE cap = "team.update" -> "team.update.elevated"
      [] cap = "team.delete" -> "team.delete.elevated"
      [] cap = "reservation.update" -> "reservation.update.elevated"
      [] cap = "reservation.delete" -> "reservation.delete.elevated"
      [] cap = "reservation.create" -> "reservation.create.elevated"

\* (the caller holds X and is a member of the owning team) or holds X.elevated
MayAct(u, t, cap) ==
    \/ (cap \in RolePerms(role[u]) /\ u \in teams[t].members)
    \/ ElevatedOf(cap) \in RolePerms(role[u])

OwnedOps == {"team_update", "team_delete", "team_user_add", "team_user_delete",
             "reservation_update", "reservation_delete"}

\* C7: team update, team delete of a non-single team, membership add and
\* remove, reservation update and delete are refused with 403 only to a caller
\* who neither holds X as a member of the owning team nor holds X.elevated, and
\* get past the permission check (to success, 409 or 500) only for a caller who does
MembershipOrElevated ==
    [][(/\ Answers(OwnedOps)
        /\ last'.team \in DOMAIN teams
        /\ ~(last'.op = "team_delete" /\ teams[last'.team].type = "single"))
       => LET ok == MayAct(last'.caller, last'.team, CapOf(last'.op)) IN
          /\ last'.status = 403 => ~ok
          /\ last'.status \in {201, 204, 409, 500} => ok]_vars

\* a caller with only the elevated capability has updated a reservation of a
\* team they are not a member of
ElevatedOnlyWitness ==
    /\ last.op = "reservation_update" /\ last.status = 204
    /\ role[last.caller] = "auditor"
    /\ last.team \in DOMAIN teams
    /\ last.caller \notin teams[last.team].members

\* C8: a reservation create is authorized for a member of the target team who
\* holds reservation.create, and for a holder of the elevated capability
\* whether a member or not: none of them is refused with 403
CreateMembershipOrElevated ==
    (last.op = "reservation_add" /\ last.status = 403)
       => ~MayAct(last.caller, last.team, "reservation.create")

\* C9: creating a team of an existing type passes the permission check for
\* other_team iff the caller holds team.create or team.create.elevated, for any
\* other type iff the caller holds team.create.elevated; a refused caller gets
\* 403 and no team is created
MayCreate(u, type) ==
    IF type = "other_team"
    THEN {"team.create", "team.create.elevated"} \cap RolePerms(role[u]) # {}
    ELSE "team.create.elevated" \in RolePerms(role[u])

TeamCreateRule ==
    [][(Answers({"team_add"}) /\ last'.type \in TeamTypes)
       => /\ last'.status \in {201, 403, 409}
          /\ last'.status = 403 <=> ~MayCreate(last'.caller, last'.type)
          /\ last'.status = 403 => UNCHANGED store
          /\ last'.status = 201 =>
                /\ last'.team \notin DOMAIN teams
                /\ DOMAIN teams' = DOMAIN teams \cup {last'.team}
                /\ teams'[last'.team].type = last'.type]_vars

\* a student has created an other_team, and is refused a single team
TeamCreateWitness ==
    /\ last.op = "team_add" /\ last.status = 403 /\ last.type = "single"
    /\ role[last.caller] = "student"
    /\ \E t \in DOMAIN teams : teams[t].type = "other_team"

SingleOps == {"team_delete", "team_user_add", "team_user_delete"}

\* C10: team delete, membership add and membership remove on a single-type
\* team are refused for every caller, and the team, its members and its
\* reservations stay as they are
SingleTeamImmutable ==
    [][(/\ Answers(SingleOps)
        /\ last'.team \in DOMAIN teams
        /\ teams[last'.team].type = "single")
       => /\ last'.status \in {400, 403, 500}
          /\ UNCHANGED store]_vars

\* an administrator was refused the delete of a single team that holds a room
SingleTeamWitness ==
    /\ last.op = "team_delete" /\ last.status = 403
    /\ role[last.caller] = "admin"
    /\ teams[last.team].type = "single"
    /\ \E x \in reservations : x.team = last.team

OwnersExist == \A x \in reservations : x.team \in DOMAIN teams

\* C11: every committed reservation's owning team exists, and a successful
\* team delete removes the team together with every reservation it owns and
\* leaves the reservations of all other teams as they were
TeamDeleteCascades ==
    /\ []OwnersExist
    /\ [][(Answers({"team_delete"}) /\ last'.status = 204)
          => /\ last'.team \in DOMAIN teams
             /\ DOMAIN teams' = DOMAIN teams \ {last'.team}
             /\ \A t \in DOMAIN teams' : teams'[t] = teams[t]
             /\ reservations' = {x \in reservations : x.team # last'.team}]_vars

\* a team was deleted after two bookings were made, and a booking of another
\* team is still there
TeamDeleteWitness ==
    /\ last.op = "team_delete" /\ last.status = 204
    /\ last.team \notin DOMAIN teams
    /\ nextResId = MaxRes + 1
    /\ Cardinality(reservations) = 1

\* C12: through auth, team create, team update, membership add and membership
\* remove, every existing team has at least one member
TeamsHaveMembers == \A t \in DOMAIN teams : teams[t].members # {}

\* C13: every team whose type is single has exactly one member
SingleHasOneMember ==
    \A t \in DOMAIN teams :
        teams[t].type = "single" => Cardinality(teams[t].members) = 1

\* C14: a membership remove on a team that has exactly one member is refused
\* (400) for every caller and every target user and changes nothing; a team
\* goes away through team delete only
LastMemberStays ==
    /\ [][(/\ Answers({"team_user_delete"})
           /\ last'.team \in DOMAIN teams
           /\ Cardinality(teams[last'.team].members) = 1)
          => /\ last'.status = 400
             /\ UNCHANGED store]_vars
    /\ [][DOMAIN teams' # DOMAIN teams /\ DOMAIN teams \ DOMAIN teams' # {}
          => last'.op = "team_delete" /\ last'.status = 204]_vars

\* an administrator was refused the removal of the only member of a team that
\* is not of type single
LastMemberWitness ==
    /\ last.op = "team_user_delete" /\ last.status = 400
    /\ role[last.caller] = "admin"
    /\ teams[last.team].type = "other_team"
    /\ Cardinality(teams[last.team].members) = 1

\* C15: of the membership adds for one (team, user) pair, interleaved between
\* the has-member check and the insert, one succeeds and makes the user a
\* member; no other gets as far as a commit that answers 201 again or 500
AddMemberOnce ==
    [][\A w \in Workers :
          (inflight[w].op = "team_user_add" /\ inflight'[w] = Idle)
          => /\ last'.status = 201
             /\ last'.user \notin teams[last'.team].members
             /\ teams'[last'.team].members =
                    teams[last'.team].members \cup {last'.user}]_vars

\* C20: with the member-count check and the removal of two membership removes
\* interleaved, no step takes the last member out of a team
NeverEmptied ==
    [][\A t \in DOMAIN teams \cap DOMAIN teams' :
          teams[t].members # {} => teams'[t].members # {}]_vars

\* C16: through reservation create and update, every committed reservation
\* has start < end
StartBeforeEnd == \A x \in reservations : x.start < x.end

\* C17: auth for a name no user has leaves a user of that name and a
\* single-type team whose only member is that user; auth for a name a user
\* has changes nothing in the store
AuthCreatesOnce ==
    [][(Answers({"auth"}) /\ last'.user \in UserIds)
       => IF last'.user \in DOMAIN role
          THEN UNCHANGED store
          ELSE /\ last'.user \in DOMAIN role'
               /\ \E t \in DOMAIN teams' :
                     /\ teams'[t].type = "single"
                     /\ teams'[t].members = {last'.user}]_vars

MutationOps == {"team_add", "team_update", "team_delete", "team_user_add",
                "team_user_delete", "reservation_add", "reservation_update",
                "reservation_delete"}

\* C18: a team or reservation mutation that ends in a validation error (400,
\* 404) or an authorization error (401, 403) leaves users, teams, memberships
\* and reservations as they were
ErrorsChangeNothing ==
    [][(Answers(MutationOps) /\ last'.status \in {400, 401, 403, 404})
       => UNCHANGED store]_vars

\* a user without permissions was refused the update of a reservation that exists
ErrorWitness ==
    /\ last.op = "reservation_update" /\ last.status = 403
    /\ role[last.caller] = "guest"
    /\ ResById(last.res) # {}

\* the reservation as an update to room rm, start s, end e leaves it
Moved(x, rm, s, e) == [x EXCEPT !.room = rm, !.start = s, !.end = e]

UpdateLeavesSelfOut ==
    \A old \in reservations : \A rm \in RoomIds : \A s \in Times : \A e \in Times :
        LET res == Moved(old, rm, s, e)
            vc == validate_conflicts(res, reservations, teams)
        IN /\ old.id \notin Ids(vc[2])
           /\ vc[2] \subseteq {x \in reservations \ {old} : x.room = rm}
           /\ (\A x \in reservations \ {old} : ~Overlap(x, res))
                 => /\ vc[1] = "NO_CONFLICT"
                    /\ \A o \in Overrides : reservation_update_commits(vc[1], o)

\* C19: an update is classified against the other reservations of the target
\* room only: the reservation under revision is never in its own conflict set,
\* an update that overlaps nothing but its own previous interval is
\* NO_CONFLICT and commits, a confirmed override does not delete the updated
\* reservation, and a committed update changes its room, start and end only
UpdateAgainstOthers ==
    /\ []UpdateLeavesSelfOut
    /\ [][(Answers({"reservation_update"}) /\ last'.status = 204)
          => \E old \in reservations :
                /\ old.id = last'.res
                /\ old.id \notin Ids(last'.conflicts)
                /\ Moved(old, last'.room, last'.start, last'.end) \in reservations'
                /\ \A x \in reservations' : x.id = old.id =>
                      x.team = old.team /\ x.created_by = old.created_by]_vars

\* an update with a confirmed override has removed other reservations, and
\* the updated reservation is there in its new room
UpdateOverrideWitness ==
    /\ last.op = "reservation_update" /\ last.status = 204
    /\ last.override = "true" /\ last.conflicts # {}
    /\ \E x \in reservations : x.id = last.res /\ x.room = last.room
    /\ Ids(last.conflicts) \cap Ids(reservations) = {}

====
